---- MODULE Spec2Model ----
(***************************************************************************)
(* Model of pfand.c, the fan speed controller daemon: the startup          *)
(* sequence of main(), the control loop with its run-on counter and kick   *)
(* pulse, and the two I/O helpers getTemp() and setFanSpeed().             *)
(***************************************************************************)
EXTENDS Integers, Sequences, FiniteSets, TLC

\* ---------------------------------------------------------------- constants
MIN_PWM == 50
MAX_PWM == 100
KICK_PWM == 70
LOW_TEMP == 55
HIGH_TEMP == 75
LOOPTIME == 2
RUNONTIME == 30
RUNONLOOPS == RUNONTIME \div LOOPTIME
EXIT_SUCCESS == 0
EXIT_FAILURE == 1

\* ------------------------------------------------------------------- bounds
\* readings range over the band widened by Margin degrees on both sides,
\* plus a few far-away values
Margin == 5
\* number of scenario ticks observed after the run-on has been used up
ScenExtra == 2

\* integer readings the sensor file can hold (fscanf "%d")
Temps == {-1, 0, 40} \cup ((LOW_TEMP - Margin)..(HIGH_TEMP + Margin))
\* effective user ids
Euids == {0, 1000}
\* results of fork(): error, child, parent
Pids == {-1, 0, 1}

VARIABLES
  pc,        \* position of main()
  exitCode,  \* argument of exit(), meaningful when pc = "exit"
  temp,      \* last value returned by getTemp (startup check, then float temp)
  readOk,    \* whether that getTemp call could open and parse the sensor file
  p,         \* int p of the control loop
  runOn,     \* int runOn
  prevP,     \* int prevP
  calcWrong, \* whether the tick printed "PWM calculation wrong"
  sink,      \* calls of setFanSpeed since startup / since the tick began
  firstTick, \* no control tick has completed yet
  below,     \* readings below LOW_TEMP in a row since a reading >= LOW_TEMP
  matched,   \* ticks so far that followed the example readings, or -1
  euid,      \* effective user id of the process
  dropped    \* setFanSpeed calls of the previous tick that could not open the device

vars == <<pc, exitCode, temp, readOk, p, runOn, prevP, calcWrong, sink,
          firstTick, below, matched, euid, dropped>>

\* ------------------------------------------------------------ I/O helpers
\* getTemp(): the integer in the sensor file, or 0 if it cannot be opened
\* or parsed
getTemp(ok, t) == IF ok THEN t ELSE 0

\* setFanSpeed(duty): one call; the write is dropped if the device file
\* cannot be opened
setFanSpeed(log, duty, opened) ==
  Append(log, [duty |-> duty, written |-> opened])

Duties(log) == [i \in 1..Len(log) |-> log[i].duty]

\* number of calls in the log whose write was dropped
DroppedIn(log) == Cardinality({i \in 1..Len(log): ~log[i].written})

\* ----------------------------------------------------------- startup tests
NotRootNegative(e) == e < 0

\* euid != 0
NotRoot(e) == e # 0

TempUnreadableNegative(r) == r < 0

\* getTemp() == 0.0
TempUnreadable(r) == r = 0

\* ------------------------------------------------------- duty computation
InterpIntDiv(t) ==
  ((MAX_PWM - MIN_PWM) \div (HIGH_TEMP - LOW_TEMP)) * (t - LOW_TEMP) + MIN_PWM

InterpInverted(t) ==
  ((MAX_PWM - MIN_PWM) * (HIGH_TEMP - t) + MIN_PWM * (HIGH_TEMP - LOW_TEMP))
     \div (HIGH_TEMP - LOW_TEMP)

InterpNoOffset(t) ==
  ((MAX_PWM - MIN_PWM) * (t - LOW_TEMP)) \div (HIGH_TEMP - LOW_TEMP)

\* floor(pRange * dt / tRange + MIN_PWM)
Interp(t) ==
  LET dt == t - LOW_TEMP
      pRange == MAX_PWM - MIN_PWM
      tRange == HIGH_TEMP - LOW_TEMP
  IN  (pRange * dt + MIN_PWM * tRange) \div tRange

\* the "just in case" clamp
Clamp(q) ==
  LET q1 == IF q > MAX_PWM THEN MAX_PWM ELSE q
  IN  IF q1 < MIN_PWM THEN MIN_PWM ELSE q1

\* whether the clamp fires and the diagnostic is printed
CalcWrong(t) ==
  /\ ~(t < LOW_TEMP)
  /\ ~(t > HIGH_TEMP)
  /\ Interp(t) # Clamp(Interp(t))

CalcPwmGe(t, k) ==
  IF t < LOW_TEMP THEN (IF k >= 0 THEN MIN_PWM ELSE 0)
  ELSE IF t > HIGH_TEMP THEN MAX_PWM
  ELSE Clamp(Interp(t))

CalcPwmNoOffset(t, k) ==
  IF t < LOW_TEMP THEN (IF k > 0 THEN MIN_PWM ELSE 0)
  ELSE IF t > HIGH_TEMP THEN MAX_PWM
  ELSE ((MAX_PWM - MIN_PWM) * (t - LOW_TEMP)) \div (HIGH_TEMP - LOW_TEMP)

\* the pwm value p for reading t with run-on counter k
CalcPwm(t, k) ==
  IF t < LOW_TEMP THEN (IF k > 0 THEN MIN_PWM ELSE 0)
  ELSE IF t > HIGH_TEMP THEN MAX_PWM
  ELSE Clamp(Interp(t))

NextRunOnNoDec(t, k) ==
  IF t < LOW_TEMP THEN k
  ELSE IF t > HIGH_TEMP THEN k
  ELSE RUNONLOOPS

NextRunOnNoReset(t, k) ==
  IF t < LOW_TEMP THEN (IF k > 0 THEN k - 1 ELSE k)
  ELSE k

NextRunOnResetWhenOff(t, k) ==
  IF t < LOW_TEMP THEN (IF k > 0 THEN k - 1 ELSE RUNONLOOPS)
  ELSE IF t > HIGH_TEMP THEN k
  ELSE RUNONLOOPS

NextRunOnGe(t, k) ==
  IF t < LOW_TEMP THEN (IF k >= 0 THEN k - 1 ELSE k)
  ELSE IF t > HIGH_TEMP THEN k
  ELSE RUNONLOOPS

\* the run-on counter after the same computation
NextRunOn(t, k) ==
  IF t < LOW_TEMP THEN (IF k > 0 THEN k - 1 ELSE k)
  ELSE IF t > HIGH_TEMP THEN k
  ELSE RUNONLOOPS

NeedKickAlways(q, prev) == q > 0

NeedKickFromOff(q, prev) == prev = 0

\* kick?
NeedKick(q, prev) == q > 0 /\ prev = 0

\* ------------------------------------------------------- example readings
ScenLen == 3 + RUNONLOOPS + ScenExtra
Scenario(n) == IF n = 2 THEN 60 ELSE IF n = 3 THEN 80 ELSE 40

\* -------------------------------------------------------------------- Init
Init ==
  /\ pc = "root"
  /\ exitCode = EXIT_SUCCESS
  /\ temp = 0
  /\ readOk = FALSE
  /\ p = 0
  /\ runOn = 0
  /\ prevP = 0
  /\ calcWrong = FALSE
  /\ sink = <<>>
  /\ firstTick = TRUE
  /\ below = -1
  /\ matched = 0
  /\ euid \in Euids
  /\ dropped = 0

Exit(code) ==
  /\ pc' = "exit"
  /\ exitCode' = code

loopVars == <<temp, readOk, p, runOn, prevP, calcWrong, sink, firstTick,
              below, matched, dropped>>

\* ----------------------------------------------------------------- startup
\* check we have root access
RootCheck ==
  /\ pc = "root"
  /\ IF NotRoot(euid) THEN Exit(EXIT_FAILURE)
     ELSE pc' = "fork" /\ UNCHANGED exitCode
  /\ UNCHANGED <<loopVars, euid>>

\* fork off the parent process; the model follows whichever process returns
Fork ==
  /\ pc = "fork"
  /\ \E pid \in Pids:
       IF pid < 0 THEN Exit(EXIT_FAILURE)
       ELSE IF pid > 0 THEN Exit(EXIT_SUCCESS)
       ELSE pc' = "log" /\ UNCHANGED exitCode
  /\ UNCHANGED <<loopVars, euid>>

\* open the log file
OpenLog ==
  /\ pc = "log"
  /\ \E opened \in BOOLEAN:
       IF ~opened THEN Exit(EXIT_FAILURE)
       ELSE pc' = "check" /\ UNCHANGED exitCode
  /\ UNCHANGED <<loopVars, euid>>

\* check that we can read the temperature
CheckTemp ==
  /\ pc = "check"
  /\ \E ok \in BOOLEAN, t \in Temps:
       /\ temp' = getTemp(ok, t)
       /\ readOk' = ok
       /\ IF TempUnreadable(getTemp(ok, t)) THEN Exit(EXIT_FAILURE)
          ELSE pc' = "detach" /\ UNCHANGED exitCode
  /\ UNCHANGED <<p, runOn, prevP, calcWrong, sink, firstTick, below, matched,
                 euid, dropped>>

\* setsid() and chdir("/")
Detach ==
  /\ pc = "detach"
  /\ \E sidOk \in BOOLEAN, chdirOk \in BOOLEAN:
       IF ~sidOk \/ ~chdirOk THEN Exit(EXIT_FAILURE)
       ELSE pc' = "warmup" /\ UNCHANGED exitCode
  /\ UNCHANGED <<loopVars, euid>>

WarmUpRecordsDuty ==
  /\ pc = "warmup"
  /\ \E opened \in BOOLEAN: sink' = setFanSpeed(sink, MAX_PWM, opened)
  /\ runOn' = 0
  /\ prevP' = MAX_PWM
  /\ pc' = "read"
  /\ UNCHANGED <<exitCode, temp, readOk, p, calcWrong, firstTick, below,
                 matched, euid, dropped>>

\* initial full speed run, then the loop's counters are initialised
WarmUp ==
  /\ pc = "warmup"
  /\ \E opened \in BOOLEAN: sink' = setFanSpeed(sink, MAX_PWM, opened)
  /\ runOn' = 0
  /\ prevP' = 0
  /\ pc' = "read"
  /\ UNCHANGED <<exitCode, temp, readOk, p, calcWrong, firstTick, below,
                 matched, euid, dropped>>

\* ------------------------------------------------------------ control loop
\* get the current cpu temperature and calculate the corresponding pwm value
ReadTemp ==
  /\ pc = "read"
  /\ \E ok \in BOOLEAN, t \in Temps:
       LET r == getTemp(ok, t) IN
       /\ temp' = r
       /\ readOk' = ok
       /\ p' = CalcPwm(r, runOn)
       /\ runOn' = NextRunOn(r, runOn)
       /\ calcWrong' = CalcWrong(r)
       /\ below' = IF ~(r < LOW_TEMP) THEN 0
                   ELSE IF below < 0 THEN below
                   ELSE IF below > RUNONLOOPS THEN below
                   ELSE below + 1
       /\ matched' = IF /\ matched >= 0
                        /\ matched < ScenLen
                        /\ ok
                        /\ r = Scenario(matched + 1)
                     THEN matched + 1
                     ELSE -1
  /\ dropped' = DroppedIn(sink)
  /\ sink' = <<>>
  /\ pc' = "kick"
  /\ UNCHANGED <<exitCode, prevP, firstTick, euid>>

\* kick?
Kick ==
  /\ pc = "kick"
  /\ IF NeedKick(p, prevP)
     THEN \E opened \in BOOLEAN: sink' = setFanSpeed(sink, KICK_PWM, opened)
     ELSE UNCHANGED sink
  /\ pc' = "set"
  /\ UNCHANGED <<exitCode, temp, readOk, p, runOn, prevP, calcWrong,
                 firstTick, below, matched, euid, dropped>>

SetPwmFatal ==
  /\ pc = "set"
  /\ \E opened \in BOOLEAN:
       /\ sink' = setFanSpeed(sink, p, opened)
       /\ IF opened THEN pc' = "update" /\ UNCHANGED exitCode
          ELSE Exit(EXIT_FAILURE)
  /\ UNCHANGED <<temp, readOk, p, runOn, prevP, calcWrong,
                 firstTick, below, matched, euid, dropped>>

\* set the pwm value
SetPwm ==
  /\ pc = "set"
  /\ \E opened \in BOOLEAN: sink' = setFanSpeed(sink, p, opened)
  /\ pc' = "update"
  /\ UNCHANGED <<exitCode, temp, readOk, p, runOn, prevP, calcWrong,
                 firstTick, below, matched, euid, dropped>>

UpdateOnSuccess ==
  /\ pc = "update"
  /\ prevP' = IF sink[Len(sink)].written THEN p ELSE prevP
  /\ pc' = "sleep"
  /\ UNCHANGED <<exitCode, temp, readOk, p, runOn, calcWrong, sink,
                 firstTick, below, matched, euid, dropped>>

\* prevP = p
Update ==
  /\ pc = "update"
  /\ prevP' = p
  /\ pc' = "sleep"
  /\ UNCHANGED <<exitCode, temp, readOk, p, runOn, calcWrong, sink,
                 firstTick, below, matched, euid, dropped>>

\* sleep(LOOPTIME), then the next iteration
Sleep ==
  /\ pc = "sleep"
  /\ firstTick' = FALSE
  /\ pc' = "read"
  /\ UNCHANGED <<exitCode, temp, readOk, p, runOn, prevP, calcWrong, sink,
                 below, matched, euid, dropped>>

Next ==
  \/ RootCheck
  \/ Fork
  \/ OpenLog
  \/ CheckTemp
  \/ Detach
  \/ WarmUp
  \/ ReadTemp
  \/ Kick
  \/ SetPwm
  \/ Update
  \/ Sleep

Spec == Init /\ [][Next]_vars

\* the process is always scheduled again: every sleep and usleep returns
FairSpec == Spec /\ WF_vars(Next)

\* -------------------------------------------------------------- type check
TypeOK ==
  /\ pc \in {"root", "fork", "log", "check", "detach", "warmup", "read",
             "kick", "set", "update", "sleep", "exit"}
  /\ exitCode \in {EXIT_SUCCESS, EXIT_FAILURE}
  /\ temp \in Temps
  /\ readOk \in BOOLEAN
  /\ p \in 0..MAX_PWM
  /\ runOn \in 0..RUNONLOOPS
  /\ prevP \in 0..MAX_PWM
  /\ calcWrong \in BOOLEAN
  /\ Len(sink) <= 2
  /\ firstTick \in BOOLEAN
  /\ below \in -1..(RUNONLOOPS + 1)
  /\ matched \in -1..ScenLen
  /\ euid \in Euids
  /\ dropped \in 0..2

\* ------------------------------------------------------------------ claims
InBand(t) == t >= LOW_TEMP /\ t <= HIGH_TEMP

\* the step of the control loop that reads the temperature and computes p
IsCompute == pc = "read" /\ pc' = "kick"

LastDuty == sink[Len(sink)].duty

\* C1: after every tick whose reading is above HIGH_TEMP the commanded duty
\* is MAX_PWM and the run-on counter equals RUNONLOOPS.
C1_HotTickResetsRunOn ==
  (pc = "sleep" /\ temp > HIGH_TEMP) =>
     /\ prevP = MAX_PWM
     /\ LastDuty = MAX_PWM
     /\ runOn = RUNONLOOPS

\* C2: after a tick with a reading at or above LOW_TEMP, the first
\* RUNONLOOPS ticks in a row with a reading below LOW_TEMP command MIN_PWM,
\* and the ticks after those command 0.
C2_RunOnGuarantee ==
  pc = "sleep" =>
     /\ (below >= 1 /\ below <= RUNONLOOPS) => (prevP = MIN_PWM /\ LastDuty = MIN_PWM)
     /\ below > RUNONLOOPS => (prevP = 0 /\ LastDuty = 0)

\* C3: a tick that begins with prevP = 0 and computes p > 0 calls the sink
\* exactly twice, with KICK_PWM and then p; a tick that begins with
\* prevP > 0 calls it exactly once, with p.
C3_KickSequencing ==
  pc = "update" =>
     /\ (prevP = 0 /\ p > 0) => Duties(sink) = <<KICK_PWM, p>>
     /\ prevP > 0 => Duties(sink) = <<p>>

C3_Witness ==
  /\ pc = "update"
  /\ prevP = 0
  /\ p > 0
  /\ Len(sink) = 2

\* C4: a tick with a reading below LOW_TEMP that begins with run-on counter
\* k > 0 computes duty MIN_PWM and leaves the counter at k - 1.
C4_RunOnTick ==
  [][(IsCompute /\ temp' < LOW_TEMP /\ runOn > 0) =>
        (p' = MIN_PWM /\ runOn' = runOn - 1)]_vars

C4_Witness ==
  /\ pc = "kick"
  /\ temp < LOW_TEMP
  /\ p = MIN_PWM
  /\ runOn = RUNONLOOPS - 1

\* C5: a tick with a reading below LOW_TEMP that begins with run-on counter
\* 0 computes duty 0 and the counter stays 0.
C5_OffTick ==
  [][(IsCompute /\ temp' < LOW_TEMP /\ runOn = 0) =>
        (p' = 0 /\ runOn' = 0)]_vars

C5_Witness ==
  /\ pc = "kick"
  /\ ~firstTick
  /\ temp < LOW_TEMP
  /\ prevP = MIN_PWM
  /\ p = 0
  /\ runOn = 0

\* C6: every value passed to the sink (warm-up, kick, per-tick duty) is 0 or
\* lies in MIN_PWM..MAX_PWM.
C6_DutyRange ==
  \A i \in 1..Len(sink):
     sink[i].duty = 0 \/ (sink[i].duty >= MIN_PWM /\ sink[i].duty <= MAX_PWM)

C6_Witness ==
  /\ pc = "update"
  /\ Len(sink) = 2
  /\ sink[1].duty = KICK_PWM
  /\ sink[2].duty > MIN_PWM
  /\ sink[2].duty < MAX_PWM

\* C7: a reading of exactly LOW_TEMP commands MIN_PWM and a reading of
\* exactly HIGH_TEMP commands MAX_PWM; both go through the interpolation
\* branch (no clamp diagnostic) and set the run-on counter to RUNONLOOPS.
C7_BandBoundaries ==
  /\ (pc = "sleep" /\ temp = LOW_TEMP) =>
        (prevP = MIN_PWM /\ LastDuty = MIN_PWM /\ runOn = RUNONLOOPS /\ ~calcWrong)
  /\ (pc = "sleep" /\ temp = HIGH_TEMP) =>
        (prevP = MAX_PWM /\ LastDuty = MAX_PWM /\ runOn = RUNONLOOPS /\ ~calcWrong)

C7_Witness ==
  /\ pc = "sleep"
  /\ firstTick
  /\ temp = HIGH_TEMP
  /\ prevP = MAX_PWM
  /\ runOn = RUNONLOOPS

\* the sink calls of the n-th tick of the example, as the example states them
ExpectedOrig(n) ==
  IF n = 1 THEN <<0>>
  ELSE IF n = 2 THEN <<KICK_PWM, 60>>
  ELSE IF n = 3 THEN <<MAX_PWM>>
  ELSE IF n <= 3 + RUNONLOOPS THEN <<MIN_PWM>>
  ELSE <<0>>

\* the same with the duty the interpolation gives for 60 degrees
Expected(n) ==
  IF n = 2 THEN <<KICK_PWM, 62>> ELSE ExpectedOrig(n)

\* the run-on counter after the n-th tick of the example
ExpectedRunOn(n) ==
  IF n = 1 THEN 0
  ELSE IF n <= 3 THEN RUNONLOOPS
  ELSE IF n <= 3 + RUNONLOOPS THEN RUNONLOOPS - (n - 3)
  ELSE 0

\* C8 as stated: the readings 40, 60, 80, 40, 40, ... from the initial state
\* produce the sink calls 0; kick, 60; 100; 50 while the counter counts
\* down; 0 once it is 0.
C8_ExampleOrig ==
  (pc = "sleep" /\ matched >= 1) =>
     (Duties(sink) = ExpectedOrig(matched) /\ runOn = ExpectedRunOn(matched))

\* C8 amended: the same example with 62 as the duty of the 60 degree tick.
C8_Example ==
  (pc = "sleep" /\ matched >= 1) =>
     (Duties(sink) = Expected(matched) /\ runOn = ExpectedRunOn(matched))

C8_Witness ==
  /\ pc = "sleep"
  /\ matched = ScenLen
  /\ Duties(sink) = <<0>>
  /\ prevP = 0

\* C9: of two consecutive ticks with readings in the band, the one with the
\* lower reading commands the lower or equal duty.
C9_Monotone ==
  [][(IsCompute /\ ~firstTick /\ InBand(temp) /\ InBand(temp')) =>
        /\ temp < temp' => p <= p'
        /\ temp' < temp => p' <= p]_vars

C9_Witness ==
  /\ pc = "kick"
  /\ ~firstTick
  /\ InBand(temp)
  /\ prevP > MIN_PWM
  /\ prevP < p
  /\ p < MAX_PWM

\* C10: a tick whose temperature read fails computes the previous duty
\* again and leaves the run-on counter as it was.
C10_FailedReadSkipsTick ==
  [][(IsCompute /\ ~readOk') => (p' = prevP /\ runOn' = runOn)]_vars

\* C11: when the temperature read before the control loop returns 0, the
\* process exits with failure; no exit of the startup is preceded by a call
\* of the sink or followed by a control tick.
C11_StartupReadFailure ==
  /\ [][(pc = "check" /\ temp' = 0) =>
          (pc' = "exit" /\ exitCode' = EXIT_FAILURE /\ sink' = <<>>)]_vars
  /\ [](pc = "exit" => (sink = <<>> /\ firstTick /\ matched = 0))

C11_Witness ==
  /\ pc = "exit"
  /\ exitCode = EXIT_FAILURE
  /\ readOk
  /\ temp = 0

\* a tick under way that began with prevP = 0 and runOn = 0 and read a
\* temperature below LOW_TEMP
OffTick == prevP = 0 /\ runOn = 0 /\ temp < LOW_TEMP /\ p = 0

\* C12: a tick that begins with prevP = 0 and runOn = 0 and reads a
\* temperature below LOW_TEMP calls the sink exactly once, with 0, issues no
\* kick, and ends with prevP = 0 and runOn = 0.
C12_OffStaysOff ==
  [][/\ (IsCompute /\ prevP = 0 /\ runOn = 0 /\ temp' < LOW_TEMP) =>
           (p' = 0 /\ runOn' = 0 /\ prevP' = 0)
     /\ (pc = "kick" /\ OffTick) => (sink' = <<>> /\ OffTick')
     /\ (pc = "set" /\ OffTick) => (Duties(sink') = <<0>> /\ OffTick')
     /\ (pc = "update" /\ OffTick) =>
           (Duties(sink') = <<0>> /\ prevP' = 0 /\ runOn' = 0)]_vars

C12_Witness ==
  /\ pc = "update"
  /\ ~firstTick
  /\ OffTick
  /\ Duties(sink) = <<0>>

InLoop == pc \in {"read", "kick", "set", "update", "sleep"}

\* C13: once in the control loop the process stays in it, every tick that
\* begins is completed and followed by another tick, and every tick calls
\* the sink, whatever reads and device opens fail.
C13_LoopNeverEnds ==
  /\ [][InLoop => InLoop']_vars
  /\ (pc = "read") ~> (pc = "sleep")
  /\ (pc = "sleep") ~> (pc = "read")
  /\ [](pc \in {"update", "sleep"} => Len(sink) >= 1)

C13_Witness ==
  /\ pc = "update"
  /\ ~firstTick
  /\ dropped > 0
  /\ ~readOk
  /\ ~sink[Len(sink)].written

\* C14: with an effective user id other than 0 the process only exits, with
\* failure, before any temperature read, sink call or control tick.
C14_NotRootExits ==
  euid # 0 =>
     /\ pc \in {"root", "exit"}
     /\ pc = "exit" => exitCode = EXIT_FAILURE
     /\ sink = <<>>
     /\ temp = 0
     /\ ~readOk
     /\ firstTick
     /\ matched = 0

C14_Witness ==
  /\ euid # 0
  /\ pc = "exit"

\* C15: the run-on counter is 0 until the first tick, stays within
\* 0..RUNONLOOPS, and changes only in the computation of a tick: by -1 when
\* the reading is below LOW_TEMP and the counter is positive, to RUNONLOOPS
\* otherwise.
C15_RunOnRange ==
  /\ [](runOn >= 0 /\ runOn <= RUNONLOOPS)
  /\ [](((~InLoop \/ pc = "read") /\ firstTick) => runOn = 0)
  /\ [][runOn' # runOn =>
          /\ IsCompute
          /\ \/ (temp' < LOW_TEMP /\ runOn > 0 /\ runOn' = runOn - 1)
             \/ (~(temp' < LOW_TEMP) /\ runOn' = RUNONLOOPS)]_vars

C15_Witness ==
  /\ pc = "kick"
  /\ temp < LOW_TEMP
  /\ p = MIN_PWM
  /\ runOn = 0

\* C16: the interpolation of every reading in the band lies in
\* MIN_PWM..MAX_PWM, and no tick prints the "PWM calculation wrong"
\* diagnostic.
C16_ClampUnused ==
  /\ ~calcWrong
  /\ \A t \in Temps:
        InBand(t) => (Interp(t) >= MIN_PWM /\ Interp(t) <= MAX_PWM)
  /\ (InLoop /\ pc # "read" /\ InBand(temp)) => p = Interp(temp)

C16_Witness ==
  /\ pc = "set"
  /\ InBand(temp)
  /\ p > MIN_PWM
  /\ p < MAX_PWM
  /\ ~calcWrong

\* C17: no sink call precedes the warm-up; the first tick begins with
\* exactly one sink call made, of MAX_PWM, and with prevP = 0 and runOn = 0;
\* a first reading below LOW_TEMP commands 0 without run-on and a first
\* reading at or above LOW_TEMP is preceded by a kick.
C17_WarmUpThenFirstTick ==
  /\ ~InLoop => sink = <<>>
  /\ (pc = "read" /\ firstTick) =>
        (Duties(sink) = <<MAX_PWM>> /\ prevP = 0 /\ runOn = 0)
  /\ (pc = "update" /\ firstTick /\ temp < LOW_TEMP) =>
        (Duties(sink) = <<0>> /\ runOn = 0)
  /\ (pc = "update" /\ firstTick /\ ~(temp < LOW_TEMP)) =>
        (p > 0 /\ Duties(sink) = <<KICK_PWM, p>>)

C17_Witness ==
  /\ pc = "update"
  /\ firstTick
  /\ ~(temp < LOW_TEMP)
  /\ Len(sink) = 2
  /\ sink[1].duty = KICK_PWM

\* C18: at the end of every tick prevP is the duty p of the tick's last sink
\* call, also when writes were dropped; a tick after one whose kick and duty
\* writes were both dropped begins with prevP > 0 and issues no kick.
C18_PrevDutyRecorded ==
  /\ pc = "sleep" => (prevP = p /\ prevP = LastDuty)
  /\ (pc = "read" /\ DroppedIn(sink) = 2) => prevP > 0
  /\ (pc = "update" /\ dropped = 2) => (prevP > 0 /\ Duties(sink) = <<p>>)

C18_Witness ==
  /\ pc = "update"
  /\ dropped = 2
  /\ p > 0
  /\ Len(sink) = 1

\* C19: at the head of the loop prevP = 0 implies runOn = 0, and a run-on
\* tick (reading below LOW_TEMP commanding MIN_PWM) issues no kick.
C19_OffImpliesNoRunOn ==
  /\ (pc = "read" /\ prevP = 0) => runOn = 0
  /\ (pc = "update" /\ temp < LOW_TEMP /\ p = MIN_PWM) => Duties(sink) = <<MIN_PWM>>

C19_Witness ==
  /\ pc = "read"
  /\ ~firstTick
  /\ prevP = 0
  /\ runOn = 0
  /\ below > RUNONLOOPS

====
